---------------------------- MODULE Spec2Model ----------------------------
(***************************************************************************)
(* Model of FilenameParser (MakeMP4s.py): parse_filename turns a media     *)
(* stem into a MediaInfo, generate_filename renders a MediaInfo as the     *)
(* output file name.  A string is a sequence of one-character strings.     *)
(***************************************************************************)
EXTENDS Integers, Sequences, FiniteSets, TLC

VARIABLES filename, media_info, new_filename, new_name, pc

\* convert_files: the batch, the loop index i, the two settings it reads, the
\* output directory, what it logged, the error boxes it showed, the calls it
\* handed to root.after, and what happened to each file it went through
VARIABLES files, idx, debug_var, output_format, fs, log, shown, after_calls, results

rename_vars == <<filename, media_info, new_filename, new_name>>

convert_vars ==
    <<files, idx, debug_var, output_format, fs, log, shown, after_calls, results>>

vars == <<rename_vars, pc, convert_vars>>

(***************************************************************************)
(* Characters and the classes the regular expressions use.                 *)
(***************************************************************************)
Lower == <<"a","b","c","d","e","f","g","h","i","j","k","l","m",
           "n","o","p","q","r","s","t","u","v","w","x","y","z">>

Upper == <<"A","B","C","D","E","F","G","H","I","J","K","L","M",
           "N","O","P","Q","R","S","T","U","V","W","X","Y","Z">>

Digits == <<"0","1","2","3","4","5","6","7","8","9">>

Range(f) == {f[i] : i \in DOMAIN f}

IndexOf(c, seq) == CHOOSE i \in DOMAIN seq : seq[i] = c

\* A letter outside ASCII (U+00E9, U+00C9), written by name: matched by \w,
\* not by [A-Za-z0-9]
LowerOther == {"e-acute"}

UpperOther == {"E-ACUTE"}

IsAsciiAlnum(c) == c \in Range(Lower) \cup Range(Upper) \cup Range(Digits)

IsAlnum(c) == IsAsciiAlnum(c) \/ c \in LowerOther \cup UpperOther

\* \d
IsDigit(c) == c \in Range(Digits)

\* \w : alphanumeric or underscore
IsWord(c) == IsAlnum(c) \/ c = "_"

\* \s, and the whitespace of str.split / str.strip
IsSpace(c) == c \in {" ", "\t"}

ToUpper(c) ==
    IF c \in Range(Lower) THEN Upper[IndexOf(c, Lower)]
    ELSE IF c \in LowerOther THEN "E-ACUTE"
    ELSE c

ToLower(c) ==
    IF c \in Range(Upper) THEN Lower[IndexOf(c, Upper)]
    ELSE IF c \in UpperOther THEN "e-acute"
    ELSE c

(***************************************************************************)
(* clean_title                                                             *)
(***************************************************************************)
\* the separators left where they are
ReplaceSeparatorsNone(title) == title

\* re.sub(r'[._]', ' ', title)
ReplaceSeparators(title) ==
    [i \in DOMAIN title |-> IF title[i] \in {".", "_"} THEN " " ELSE title[i]]

KeepChar(c) == IsWord(c) \/ IsSpace(c) \/ c = "-"

\* re.sub(r'[^\w\s-]', '', title)
RemoveUnwanted(title) == SelectSeq(title, KeepChar)

\* str.split(): the maximal runs of non-whitespace characters
RECURSIVE SplitFrom(_, _, _)
SplitFrom(s, i, word) ==
    IF i > Len(s)
    THEN IF word = <<>> THEN <<>> ELSE <<word>>
    ELSE IF IsSpace(s[i])
         THEN IF word = <<>> THEN SplitFrom(s, i + 1, <<>>)
              ELSE <<word>> \o SplitFrom(s, i + 1, <<>>)
         ELSE SplitFrom(s, i + 1, Append(word, s[i]))

Split(s) == SplitFrom(s, 1, <<>>)

\* str.capitalize(): first character upper case, the rest lower case
Capitalize(word) ==
    [i \in DOMAIN word |-> IF i = 1 THEN ToUpper(word[i]) ELSE ToLower(word[i])]

\* ' '.join(words)
RECURSIVE Join(_)
Join(words) ==
    IF words = <<>> THEN <<>>
    ELSE IF Len(words) = 1 THEN words[1]
    ELSE words[1] \o <<" ">> \o Join(Tail(words))

\* str.strip()
RECURSIVE LStrip(_)
LStrip(s) == IF s # <<>> /\ IsSpace(s[1]) THEN LStrip(Tail(s)) ELSE s

RECURSIVE RStrip(_)
RStrip(s) ==
    IF s # <<>> /\ IsSpace(s[Len(s)]) THEN RStrip(SubSeq(s, 1, Len(s) - 1)) ELSE s

Strip(s) == RStrip(LStrip(s))

\* every word capitalized where it stands, the whitespace kept as it is
TitleCaseInPlace(title) ==
    [i \in DOMAIN title |->
        IF i = 1 \/ IsSpace(title[i - 1]) THEN ToUpper(title[i]) ELSE ToLower(title[i])]

TitleCaseWords(title) ==
    LET words == Split(title)
    IN  Join([i \in DOMAIN words |-> Capitalize(words[i])])

clean_title(title) ==
    Strip(TitleCaseWords(RemoveUnwanted(ReplaceSeparators(title))))

(***************************************************************************)
(* int(), str() and str.zfill()                                            *)
(***************************************************************************)
ValueError == -1

DigitVal(c) == IndexOf(c, Digits) - 1

RECURSIVE IntAcc(_, _, _)
IntAcc(s, i, acc) ==
    IF i > Len(s) THEN acc
    ELSE IF ~IsDigit(s[i]) THEN ValueError
    ELSE IntAcc(s, i + 1, acc * 10 + DigitVal(s[i]))

\* int(s) for an unsigned decimal string; ValueError when s is not one
IntOf(s) == IF s = <<>> THEN ValueError ELSE IntAcc(s, 1, 0)

RECURSIVE StrOf(_)
\* str(n), n >= 0
StrOf(n) ==
    IF n < 10 THEN <<Digits[n + 1]>> ELSE StrOf(n \div 10) \o <<Digits[(n % 10) + 1]>>

RECURSIVE ZFill(_, _)
ZFill(s, width) == IF Len(s) >= width THEN s ELSE ZFill(<<"0">> \o s, width)

(***************************************************************************)
(* The patterns.  Every pattern is                                         *)
(*     ^((?:[A-Za-z0-9.]+[. ])*?) <tail>                                   *)
(* matched by re.match: a backtracking search from position 1 in which the *)
(* lazy group first tries the tail where it stands and only then takes one *)
(* more [A-Za-z0-9.]+[. ] piece, the greedy + giving back one character at *)
(* a time.  A match is [ok, g1, g2, g3]; NoMatch has ok = FALSE.           *)
(***************************************************************************)
NoMatch == [ok |-> FALSE, g1 |-> <<>>, g2 |-> <<>>, g3 |-> <<>>]

YearDigits == 4

MaxNumDigits == 2

\* [A-Za-z0-9.]
PieceChar(c) == IsAsciiAlnum(c) \/ c = "."

\* [. ]
PieceEnd(c) == c \in {".", " "}

\* a \d widened to any ASCII letter or digit
PatternDigitLoose(c) == IsAsciiAlnum(c)

\* \d as the patterns use it
PatternDigit(c) == IsDigit(c)

\* the run of digits from pos on, whatever its length
RECURSIVE DigitRunUnbounded(_, _, _)
DigitRunUnbounded(s, pos, max) ==
    IF pos > Len(s) \/ ~IsDigit(s[pos]) THEN 0
    ELSE 1 + DigitRunUnbounded(s, pos + 1, max)

\* number of characters from pos on that satisfy \d, at most max
RECURSIVE DigitRun(_, _, _)
DigitRun(s, pos, max) ==
    IF max = 0 \/ pos > Len(s) \/ ~PatternDigit(s[pos]) THEN 0
    ELSE 1 + DigitRun(s, pos + 1, max - 1)

At(s, pos, c) == pos <= Len(s) /\ s[pos] = c

\* <lit1>(\d{1,2})<lit2>(\d{1,2}) at pos; lit1 = "" stands for no literal.
\* Greedy \d{1,2}: the longer run first, then one digit fewer.
RECURSIVE NumPair(_, _, _, _, _)
NumPair(s, pos, lit1, lit2, n1) ==
    LET p1 == IF lit1 = "" THEN pos ELSE pos + 1
        n2 == DigitRun(s, p1 + n1 + 1, MaxNumDigits)
    IN  IF lit1 # "" /\ ~At(s, pos, lit1) THEN NoMatch
        ELSE IF n1 < 1 THEN NoMatch
        ELSE IF At(s, p1 + n1, lit2) /\ n2 >= 1
             THEN [ok |-> TRUE, g1 |-> SubSeq(s, 1, pos - 1),
                   g2 |-> SubSeq(s, p1, p1 + n1 - 1),
                   g3 |-> SubSeq(s, p1 + n1 + 1, p1 + n1 + n2)]
             ELSE NumPair(s, pos, lit1, lit2, n1 - 1)

\* S(\d{1,2})E(\d{1,2})
TailSE(s, pos) == NumPair(s, pos, "S", "E", DigitRun(s, pos + 1, MaxNumDigits))

\* (\d{1,2})x(\d{1,2})
TailX(s, pos) == NumPair(s, pos, "", "x", DigitRun(s, pos, MaxNumDigits))

YearAt(s, pos) ==
    IF DigitRun(s, pos, YearDigits) = YearDigits
    THEN [ok |-> TRUE, g1 |-> <<>>, g2 |-> SubSeq(s, pos, pos + YearDigits - 1),
          g3 |-> <<>>]
    ELSE NoMatch

\* (?:[\[(]?(\d{4})[\])]?) : the optional bracket is tried before its absence
TailYear(s, pos) ==
    LET open  == pos <= Len(s) /\ s[pos] \in {"[", "("}
        inner == IF open THEN YearAt(s, pos + 1) ELSE NoMatch
        bare  == YearAt(s, pos)
        m     == IF inner.ok THEN inner ELSE bare
    IN  IF m.ok THEN [m EXCEPT !.g1 = SubSeq(s, 1, pos - 1)] ELSE NoMatch

\* \((\d{4})\)
TailParenYear(s, pos) ==
    LET m == YearAt(s, pos + 1)
    IN  IF At(s, pos, "(") /\ m.ok /\ At(s, pos + 1 + YearDigits, ")")
        THEN [m EXCEPT !.g1 = SubSeq(s, 1, pos - 1)]
        ELSE NoMatch

PatternTail(pattern, s, pos) ==
    CASE pattern = "SxxEyy"    -> TailSE(s, pos)
      [] pattern = "NxM"       -> TailX(s, pos)
      [] pattern = "Year"      -> TailYear(s, pos)
      [] pattern = "ParenYear" -> TailParenYear(s, pos)

\* length of the longest run of [A-Za-z0-9.] starting at pos
RECURSIVE PieceRun(_, _)
PieceRun(s, pos) ==
    IF pos > Len(s) \/ ~PieceChar(s[pos]) THEN 0 ELSE 1 + PieceRun(s, pos + 1)

RECURSIVE LazyPrefix(_, _, _)
RECURSIVE OnePiece(_, _, _, _)
\* (...)*? standing at pos: the tail first, one more piece only if it fails
LazyPrefix(pattern, s, pos) ==
    LET t == PatternTail(pattern, s, pos)
    IN  IF t.ok THEN t ELSE OnePiece(pattern, s, pos, PieceRun(s, pos))

\* [A-Za-z0-9.]+[. ] from pos with the + holding k characters
OnePiece(pattern, s, pos, k) ==
    IF k < 1 THEN NoMatch
    ELSE LET rest == IF pos + k <= Len(s) /\ PieceEnd(s[pos + k])
                     THEN LazyPrefix(pattern, s, pos + k + 1)
                     ELSE NoMatch
         IN  IF rest.ok THEN rest ELSE OnePiece(pattern, s, pos, k - 1)

\* re.match(pattern, filename)
ReMatch(pattern, s) == LazyPrefix(pattern, s, 1)

movie_patterns == <<"Year", "ParenYear">>

tv_patterns == <<"SxxEyy", "NxM">>

\* the first pattern of the list, from index i on, that matches; else NoMatch
RECURSIVE FirstMatch(_, _, _)
FirstMatch(patterns, s, i) ==
    IF i > Len(patterns) THEN NoMatch
    ELSE LET m == ReMatch(patterns[i], s)
         IN  IF m.ok THEN m ELSE FirstMatch(patterns, s, i + 1)

(***************************************************************************)
(* MediaInfo, parse_filename, generate_filename                            *)
(***************************************************************************)
None == <<"None">>

MediaInfo(title, year, season, episode) ==
    [title |-> title, year |-> year, season |-> season, episode |-> episode]

Raised == [raised |-> "ValueError"]

\* parse_filename keeping the matched digits as they stand (no int())
parse_filename_raw_numbers(s) ==
    LET tv    == FirstMatch(tv_patterns, s, 1)
        movie == FirstMatch(movie_patterns, s, 1)
    IN  IF tv.ok
        THEN MediaInfo(clean_title(tv.g1), None, tv.g2, tv.g3)
        ELSE IF movie.ok
        THEN MediaInfo(clean_title(movie.g1), movie.g2, None, None)
        ELSE MediaInfo(clean_title(s), None, None, None)

\* parse_filename returning the stem as it is when no pattern matches
parse_filename_raw_fallback(s) ==
    LET tv    == FirstMatch(tv_patterns, s, 1)
        movie == FirstMatch(movie_patterns, s, 1)
    IN  IF tv.ok
        THEN MediaInfo(clean_title(tv.g1), None,
                       StrOf(IntOf(tv.g2)), StrOf(IntOf(tv.g3)))
        ELSE IF movie.ok
        THEN MediaInfo(clean_title(movie.g1), movie.g2, None, None)
        ELSE MediaInfo(s, None, None, None)

\* parse_filename recording, for a TV match, the year a movie pattern finds
parse_filename_tv_with_year(s) ==
    LET tv    == FirstMatch(tv_patterns, s, 1)
        movie == FirstMatch(movie_patterns, s, 1)
    IN  IF tv.ok
        THEN MediaInfo(clean_title(tv.g1), IF movie.ok THEN movie.g2 ELSE None,
                       StrOf(IntOf(tv.g2)), StrOf(IntOf(tv.g3)))
        ELSE IF movie.ok
        THEN MediaInfo(clean_title(movie.g1), movie.g2, None, None)
        ELSE MediaInfo(clean_title(s), None, None, None)

\* parse_filename trying the movie patterns before the TV patterns
parse_filename_movie_first(s) ==
    LET tv    == FirstMatch(tv_patterns, s, 1)
        movie == FirstMatch(movie_patterns, s, 1)
    IN  IF movie.ok
        THEN MediaInfo(clean_title(movie.g1), movie.g2, None, None)
        ELSE IF tv.ok
        THEN MediaInfo(clean_title(tv.g1), None,
                       StrOf(IntOf(tv.g2)), StrOf(IntOf(tv.g3)))
        ELSE MediaInfo(clean_title(s), None, None, None)

parse_filename(s) ==
    LET tv    == FirstMatch(tv_patterns, s, 1)
        movie == FirstMatch(movie_patterns, s, 1)
    IN  IF tv.ok
        THEN IF IntOf(tv.g2) = ValueError \/ IntOf(tv.g3) = ValueError
             THEN Raised
             ELSE MediaInfo(clean_title(tv.g1), None,
                            StrOf(IntOf(tv.g2)), StrOf(IntOf(tv.g3)))
        ELSE IF movie.ok
        THEN MediaInfo(clean_title(movie.g1), movie.g2, None, None)
        ELSE MediaInfo(clean_title(s), None, None, None)

\* truth value of an Optional[str]: None and "" are false
Truthy(v) == v # None /\ v # <<>>

PadWidth == 2

\* generate_filename without the zero padding
generate_filename_unpadded(m) ==
    IF Truthy(m.season) /\ Truthy(m.episode)
    THEN m.title \o <<" ", "-", " ", "S">> \o m.season \o <<"E">> \o m.episode
    ELSE IF Truthy(m.year)
    THEN m.title \o <<" ", "(">> \o m.year \o <<")">>
    ELSE m.title

generate_filename(m) ==
    IF Truthy(m.season) /\ Truthy(m.episode)
    THEN m.title \o <<" ", "-", " ", "S">> \o ZFill(m.season, PadWidth)
                 \o <<"E">> \o ZFill(m.episode, PadWidth)
    ELSE IF Truthy(m.year)
    THEN m.title \o <<" ", "(">> \o m.year \o <<")">>
    ELSE m.title

(***************************************************************************)
(* The stems parse_filename is applied to                                  *)
(***************************************************************************)
MaxTokens == 3

\* fragments of file names, put together in every order
Tokens ==
    { <<"S","h","o","w">>,
      <<"n","A","M","E">>,
      <<".">>,
      <<"_">>,
      <<" ">>,
      <<"-">>,
      <<"\t">>,
      <<"(">>,
      <<"e-acute">>,
      <<"S","0","1","E","0","2">>,
      <<"S","0","E","0">>,
      <<"1","x","0","2">>,
      <<"x">>,
      <<"1">>,
      <<"2","0","2","4">>,
      <<"1","0","8","0","p">> }

RECURSIVE Flatten(_)
Flatten(ts) == IF ts = <<>> THEN <<>> ELSE Head(ts) \o Flatten(Tail(ts))

TokenStems ==
    UNION { { Flatten(ts) : ts \in [1..n -> Tokens] } : n \in 0..MaxTokens }

\* release-style names: a title part, a marker, a trailing part
Titles ==
    { <<>>,
      <<"S","h","o","w",".">>,
      <<"S","h","o","w",".","N","a","m","e",".">>,
      <<"s","h","o","w"," ","n","a","m","e"," ">>,
      <<"S","1","E","1",".">>,
      <<"1","x","1",".">>,
      <<"2","0","0","1",".">>,
      <<"S","h","o","w","_">>,
      <<"S","h","o","w",".",".","N","a","m","e",".">> }

Markers ==
    { <<"S","0","1","E","0","2">>,
      <<"S","1","E","2">>,
      <<"S","0","0","E","0","0">>,
      <<"S","9","E","9">>,
      <<"S","0","9","E","0","9">>,
      <<"1","x","0","2">>,
      <<"1","2","x","3","4">>,
      <<"2","0","2","4">>,
      <<"(","2","0","2","4",")">>,
      <<"[","2","0","2","4","]">>,
      <<"S","1","2","3","E","4">> }

Suffixes ==
    { <<>>,
      <<".","1","0","8","0","p">>,
      <<".","2","0","2","4">>,
      <<".","x","2","6","4">>,
      <<".","S","0","2","E","0","3">> }

ReleaseStems == { t \o m \o r : t \in Titles, m \in Markers, r \in Suffixes }

\* the stems the documentation of the parser gives
Examples ==
    { <<"S","h","o","w",".","N","a","m","e",".","S","0","1","E","0","2">>,
      <<"S","h","o","w",".","N","a","m","e",".","1","x","0","2">>,
      <<"M","o","v","i","e",".","N","a","m","e",".","2","0","2","4",".","1","0","8","0","p">>,
      <<"M","o","v","i","e",".","N","a","m","e",".","(","2","0","2","4",")">>,
      <<"r","a","n","d","o","m","_","f","i","l","e","_","n","a","m","e">>,
      <<"S","h","o","w",".","N","a","m","e",".","S","1","E","2">>,
      <<"S","h","o","w",".","S","0","9","E","0","9">>,
      <<"S","h","o","w",".","S","9","E","9">>,
      <<"S","h","o","w",".","S","0","1","E","0","2",".","2","0","2","4">> }

Stems == TokenStems \cup ReleaseStems \cup Examples

(***************************************************************************)
(* One renaming, as convert_files does it for one input file, and the name *)
(* update_scan_results previews for a file that carries the generated name *)
(***************************************************************************)
Unset == [unset |-> TRUE]

Init ==
    /\ filename \in Stems
    /\ media_info = Unset
    /\ new_filename = None
    /\ new_name = None
    /\ pc = "parse"
    /\ files = <<>> /\ idx = 0
    /\ debug_var = FALSE /\ output_format = <<"m","p","4">>
    /\ fs = {} /\ log = <<>> /\ shown = <<>> /\ after_calls = <<>> /\ results = <<>>

ParseFilename ==
    /\ pc = "parse"
    /\ media_info' = parse_filename(filename)
    /\ pc' = IF media_info' = Raised THEN "raised" ELSE "generate"
    /\ UNCHANGED <<filename, new_filename, new_name, convert_vars>>

GenerateFilename ==
    /\ pc = "generate"
    /\ new_filename' = generate_filename(media_info)
    /\ pc' = "done"
    /\ UNCHANGED <<filename, media_info, new_name, convert_vars>>

\* the generated name taken as a stem again: parse_filename, generate_filename
PreviewGeneratedName ==
    /\ pc = "done"
    /\ new_name' = generate_filename(parse_filename(new_filename))
    /\ pc' = "previewed"
    /\ UNCHANGED <<filename, media_info, new_filename, convert_vars>>

Next == ParseFilename \/ GenerateFilename \/ PreviewGeneratedName

Spec == Init /\ [][Next]_vars

(***************************************************************************)
(* Vocabulary of the properties                                            *)
(***************************************************************************)
Parsed == pc \in {"generate", "done", "previewed"}

IsStr(v) == v # None /\ \A i \in DOMAIN v : v[i] # "None"

IsOptStr(v) == v = None \/ IsStr(v)

IsMediaInfo(m) ==
    /\ DOMAIN m = {"title", "year", "season", "episode"}
    /\ IsStr(m.title)
    /\ IsOptStr(m.year) /\ IsOptStr(m.season) /\ IsOptStr(m.episode)

MatchesTV(s) == \E i \in DOMAIN tv_patterns : ReMatch(tv_patterns[i], s).ok

MatchesMovie(s) == \E i \in DOMAIN movie_patterns : ReMatch(movie_patterns[i], s).ok

\* the fields of s between its dots
RECURSIVE DotFieldsFrom(_, _, _)
DotFieldsFrom(s, i, field) ==
    IF i > Len(s) THEN <<field>>
    ELSE IF s[i] = "." THEN <<field>> \o DotFieldsFrom(s, i + 1, <<>>)
    ELSE DotFieldsFrom(s, i + 1, Append(field, s[i]))

DotFields(s) == DotFieldsFrom(s, 1, <<>>)

AllDigits(w) == \A i \in DOMAIN w : w[i] \in Range(Digits)

IsLetterWord(w) == w # <<>> /\ \A i \in DOMAIN w : w[i] \in Range(Lower) \cup Range(Upper)

IsAsciiWord(w) == w # <<>> /\ \A i \in DOMAIN w : IsAsciiAlnum(w[i])

IsYearToken(w) == Len(w) = 4 /\ AllDigits(w)

IsNum12(w) == Len(w) \in {1, 2} /\ AllDigits(w)

\* value of a 1 or 2 digit number, computed digit by digit
NumValue(w) ==
    IF Len(w) = 1 THEN DigitVal(w[1]) ELSE 10 * DigitVal(w[1]) + DigitVal(w[2])

\* the words, each capitalized, with one space between them
ExpectedTitle(words) == Join([i \in DOMAIN words |-> Capitalize(words[i])])

\* w = S<s>E<e>: the position of E (0 when w has no such shape)
SEPos(w) ==
    IF \E k \in 3..(Len(w) - 1) :
          /\ w[1] = "S" /\ w[k] = "E"
          /\ IsNum12(SubSeq(w, 2, k - 1)) /\ IsNum12(SubSeq(w, k + 1, Len(w)))
    THEN CHOOSE k \in 3..(Len(w) - 1) :
          /\ w[1] = "S" /\ w[k] = "E"
          /\ IsNum12(SubSeq(w, 2, k - 1)) /\ IsNum12(SubSeq(w, k + 1, Len(w)))
    ELSE 0

\* w = <s>x<e>: the position of x (0 when w has no such shape)
XPos(w) ==
    IF \E k \in 2..(Len(w) - 1) :
          /\ w[k] = "x"
          /\ IsNum12(SubSeq(w, 1, k - 1)) /\ IsNum12(SubSeq(w, k + 1, Len(w)))
    THEN CHOOSE k \in 2..(Len(w) - 1) :
          /\ w[k] = "x"
          /\ IsNum12(SubSeq(w, 1, k - 1)) /\ IsNum12(SubSeq(w, k + 1, Len(w)))
    ELSE 0

IsMarkerToken(w) == SEPos(w) > 0 \/ XPos(w) > 0

MarkerSeason(w) ==
    IF SEPos(w) > 0 THEN NumValue(SubSeq(w, 2, SEPos(w) - 1))
    ELSE NumValue(SubSeq(w, 1, XPos(w) - 1))

MarkerEpisode(w) ==
    IF SEPos(w) > 0 THEN NumValue(SubSeq(w, SEPos(w) + 1, Len(w)))
    ELSE NumValue(SubSeq(w, XPos(w) + 1, Len(w)))

\* w begins with S<d..>E<d> or <d..>x<d>, as a pattern tail would read it
BeginsWithMarker(w) ==
    \E n \in 1..2 :
        \/ /\ Len(w) >= n + 3 /\ w[1] = "S" /\ AllDigits(SubSeq(w, 2, n + 1))
           /\ w[n + 2] = "E" /\ w[n + 3] \in Range(Digits)
        \/ /\ Len(w) >= n + 2 /\ AllDigits(SubSeq(w, 1, n))
           /\ w[n + 1] = "x" /\ w[n + 2] \in Range(Digits)

Front(fields) == SubSeq(fields, 1, Len(fields) - 1)

Last(fields) == fields[Len(fields)]

(***************************************************************************)
(* Properties of parse_filename and generate_filename                      *)
(***************************************************************************)

\* C1: parse_filename is total: for every stem, the empty one and those no
\* pattern matches included, the call raises nothing and returns a MediaInfo.
C1_ParseIsTotal ==
    /\ pc # "raised"
    /\ pc # "parse" => IsMediaInfo(media_info)

C1_Witness ==
    /\ pc = "generate"
    /\ filename = <<>>
    /\ media_info = MediaInfo(<<>>, None, None, None)

\* Stems  <letter words>.<4-digit year>.<further tokens>, the year token being
\* the only field of four digits
IsMovieStem(s) ==
    LET f == DotFields(s)
    IN  \E k \in 2..(Len(f) - 1) :
            /\ IsYearToken(f[k])
            /\ \A i \in 1..(k - 1) : IsLetterWord(f[i])
            /\ \A i \in (k + 1)..Len(f) : IsAsciiWord(f[i]) /\ ~IsYearToken(f[i])

MovieYearIndex(s) ==
    LET f == DotFields(s) IN CHOOSE k \in 2..(Len(f) - 1) : IsYearToken(f[k])

\* C2: for a stem of dot-separated title words, then a 4-digit year token,
\* then further tokens (a resolution tag, ...), the result has that year,
\* the cleaned words before it as title, and no season or episode.
C2_MovieYearAndTitle ==
    (Parsed /\ IsMovieStem(filename)) =>
        LET f == DotFields(filename)
            k == MovieYearIndex(filename)
        IN  media_info =
                MediaInfo(ExpectedTitle(SubSeq(f, 1, k - 1)), f[k], None, None)

\* Stems  <ASCII words>.S<s>E<e>  and  <ASCII words>.<s>x<e>
IsTVStem(s) ==
    LET f == DotFields(s)
    IN  /\ Len(f) >= 2
        /\ IsMarkerToken(Last(f))
        /\ \A i \in 1..(Len(f) - 1) : IsAsciiWord(f[i])

TVStemResult(s) ==
    LET f == DotFields(s)
    IN  MediaInfo(ExpectedTitle(Front(f)), None,
                  StrOf(MarkerSeason(Last(f))), StrOf(MarkerEpisode(Last(f))))

NoWordBeginsWithMarker(s) ==
    LET f == DotFields(s) IN \A i \in 1..(Len(f) - 1) : ~BeginsWithMarker(f[i])

\* C3 as stated: every stem <title words>.S<s>E<e> or <title words>.<s>x<e>
\* gives the cleaned title words, the integer values of s and e, and no year.
C3_TVStemAsStated == (Parsed /\ IsTVStem(filename)) => media_info = TVStemResult(filename)

\* C3, amended: the same for title words made of ASCII letters and digits
\* none of which begins with an S<d>E<d> or <d>x<d> marker of its own.
C3_TVStem ==
    (Parsed /\ IsTVStem(filename) /\ NoWordBeginsWithMarker(filename)) =>
        media_info = TVStemResult(filename)

C3_Witness ==
    /\ pc = "done"
    /\ filename = <<"S","h","o","w",".","N","a","m","e",".","1","x","0","2">>
    /\ media_info = MediaInfo(<<"S","h","o","w"," ","N","a","m","e">>, None, <<"1">>, <<"2">>)

\* C4: a stem that a TV pattern and a movie pattern both match is classified
\* as TV: season and episode are set and year is absent.
C4_TVBeforeMovie ==
    (Parsed /\ MatchesTV(filename) /\ MatchesMovie(filename)) =>
        /\ media_info.season # None
        /\ media_info.episode # None
        /\ media_info.year = None

C4_Witness ==
    /\ pc = "done"
    /\ filename = <<"S","h","o","w",".","S","0","1","E","0","2",".","2","0","2","4">>
    /\ MatchesTV(filename) /\ MatchesMovie(filename)
    /\ media_info = MediaInfo(<<"S","h","o","w">>, None, <<"1">>, <<"2">>)

\* a 1 or 2 digit number written with two digits
TwoDigits(d) == IF Len(d) = 1 THEN <<"0">> \o d ELSE d

C6_SeasonEpisodePositive ==
    (Parsed /\ media_info.season # None /\ media_info.episode # None) =>
        IntOf(media_info.season) >= 1 /\ IntOf(media_info.episode) >= 1

\* C6, amended: a season and an episode that are set are decimal numerals
\* without leading zeros of integers from 0 to 99 (0 included: S00E00).
C6_SeasonEpisodeRange ==
    (Parsed /\ media_info.season # None /\ media_info.episode # None) =>
        /\ IntOf(media_info.season) \in 0..99
        /\ IntOf(media_info.episode) \in 0..99
        /\ media_info.season = StrOf(IntOf(media_info.season))
        /\ media_info.episode = StrOf(IntOf(media_info.episode))

C6_Witness ==
    /\ pc = "generate"
    /\ filename = <<"S","h","o","w",".","S","0","0","E","0","0">>
    /\ media_info = MediaInfo(<<"S","h","o","w">>, None, <<"0">>, <<"0">>)

\* C7: when neither a TV nor a movie pattern matches the stem, the result is
\* the cleaned whole stem as title, with year, season and episode absent;
\* "random_file_name" gives "Random File Name".
C7_FallbackTitleOnly ==
    (Parsed /\ ~MatchesTV(filename) /\ ~MatchesMovie(filename)) =>
        /\ media_info = MediaInfo(clean_title(filename), None, None, None)
        /\ filename = <<"r","a","n","d","o","m","_","f","i","l","e","_","n","a","m","e">> =>
               media_info.title = <<"R","a","n","d","o","m"," ","F","i","l","e"," ","N","a","m","e">>

C7_Witness ==
    /\ pc = "done"
    /\ filename = <<"r","a","n","d","o","m","_","f","i","l","e","_","n","a","m","e">>
    /\ ~MatchesTV(filename) /\ ~MatchesMovie(filename)
    /\ media_info = MediaInfo(<<"R","a","n","d","o","m"," ","F","i","l","e"," ","N","a","m","e">>, None, None, None)

\* C8: the rendered name of a parsed stem contains neither '.' nor '_'.
C8_NoSeparatorsInOutput ==
    pc = "done" => \A i \in DOMAIN new_filename : new_filename[i] \notin {".", "_"}

C8_Witness ==
    /\ pc = "done"
    /\ filename = <<"S","h","o","w","_">> \o <<"S","0","1","E","0","2",".","x","2","6","4">>
    /\ new_filename = <<"S","h","o","w"," ","S","0","1","e","0","2"," ","X","2","6","4">>

\* C9: in a parse result season and episode are both present or both absent,
\* and year is never set together with them.
C9_TVOrMovie ==
    Parsed =>
        /\ (media_info.season = None) <=> (media_info.episode = None)
        /\ ~(media_info.year # None /\ media_info.season # None)
        /\ ~(media_info.year # None /\ media_info.episode # None)

C9_Witness ==
    /\ pc = "generate"
    /\ filename = <<"S","h","o","w",".","S","0","1","E","0","2",".","2","0","2","4">>
    /\ media_info.season = <<"1">> /\ media_info.episode = <<"2">>
    /\ media_info.year = None

\* The steps of clean_title as C10 lists them, each over the characters
SeparatorsToSpaces(t) == [i \in DOMAIN t |-> IF t[i] = "." \/ t[i] = "_" THEN " " ELSE t[i]]

AlnumSpaceHyphen(c) == IsAlnum(c) \/ IsSpace(c) \/ c = "-"

OnlyAlnumSpaceHyphen(t) == SelectSeq(t, AlnumSpaceHyphen)

\* each whitespace-separated word capitalized, nothing else touched
WordsCapitalized(t) ==
    [i \in DOMAIN t |->
        IF i = 1 \/ IsSpace(t[i - 1]) THEN ToUpper(t[i]) ELSE ToLower(t[i])]

\* every run of whitespace replaced by one space
RECURSIVE SingleSpacedFrom(_, _)
SingleSpacedFrom(t, i) ==
    IF i > Len(t) THEN <<>>
    ELSE IF ~IsSpace(t[i]) THEN <<t[i]>> \o SingleSpacedFrom(t, i + 1)
    ELSE IF i > 1 /\ IsSpace(t[i - 1]) THEN SingleSpacedFrom(t, i + 1)
    ELSE <<" ">> \o SingleSpacedFrom(t, i + 1)

SingleSpaced(t) == SingleSpacedFrom(t, 1)

Trimmed(t) ==
    IF \A i \in DOMAIN t : IsSpace(t[i]) THEN <<>>
    ELSE LET a == CHOOSE i \in DOMAIN t :
                      ~IsSpace(t[i]) /\ \A j \in 1..(i - 1) : IsSpace(t[j])
             b == CHOOSE i \in DOMAIN t :
                      ~IsSpace(t[i]) /\ \A j \in (i + 1)..Len(t) : IsSpace(t[j])
         IN  SubSeq(t, a, b)

StepsAsStated(t) ==
    Trimmed(WordsCapitalized(OnlyAlnumSpaceHyphen(SeparatorsToSpaces(t))))

StepsAmended(t) ==
    Trimmed(SingleSpaced(WordsCapitalized(OnlyAlnumSpaceHyphen(SeparatorsToSpaces(t)))))

TitleWellFormed(title) ==
    /\ \A i \in DOMAIN title : IsAlnum(title[i]) \/ title[i] = " " \/ title[i] = "-"
    /\ title # <<>> => title[1] # " " /\ title[Len(title)] # " "

\* C10 as stated: clean_title(t) is t with '.' and '_' made spaces, then the
\* characters that are not alphanumeric, whitespace or hyphen deleted, then
\* each whitespace-separated word capitalized, then trimmed; and the title of
\* a parse result has only alphanumerics, spaces and hyphens, with no
\* whitespace at either end.
C10_CleanTitleAsStated ==
    Parsed =>
        /\ clean_title(filename) = StepsAsStated(filename)
        /\ TitleWellFormed(media_info.title)

\* C10, amended: the same steps, the capitalized words being joined by single
\* spaces (every run of whitespace becomes one space) before the trimming.
C10_CleanTitle ==
    Parsed =>
        /\ clean_title(filename) = StepsAmended(filename)
        /\ TitleWellFormed(media_info.title)

C10_Witness ==
    /\ pc = "done"
    /\ filename = <<"S","h","o","w",".",".","N","a","m","e",".","S","0","1","E","0","2">>
    /\ clean_title(filename) = <<"S","h","o","w"," ","N","a","m","e"," ","S","0","1","e","0","2">>
    /\ media_info.title = <<"S","h","o","w"," ","N","a","m","e">>

\* C13: renaming is idempotent: the name generated for a stem, parsed and
\* rendered again, is that same name, be it a TV, a movie or a title-only
\* name.
C13_RenameIdempotent == pc = "previewed" => new_name = new_filename


(***************************************************************************)
(* convert_files: one batch of selected files                              *)
(***************************************************************************)
MaxBatch == 2

\* the paths of the files found by the scan
InputPaths ==
    { <<"/","v","/","S","h","o","w",".","S","0","1","E","0","2",".","7","2","0","p",".","m","k","v">>,
      <<"/","v","/","S","h","o","w",".","S","0","1","E","0","2",".","1","0","8","0","p",".","m","k","v">>,
      <<"/","v","/","a","/","c","l","i","p",".","m","k","v">>,
      <<"/","v","/","b","/","c","l","i","p",".","f","l","v">>,
      <<"/","v","/","M","o","v","i","e",".","2","0","2","4",".","m","k","v">> }

\* the selected rows of the file list, all different, in some order
Batches ==
    UNION { { b \in [1..n -> InputPaths] : \A j, k \in 1..n : j # k => b[j] # b[k] } :
            n \in 1..MaxBatch }

\* greatest index of s holding c, 0 when there is none
LastIndexOf(s, c) ==
    IF \E k \in DOMAIN s : s[k] = c
    THEN CHOOSE k \in DOMAIN s : s[k] = c /\ \A j \in (k + 1)..Len(s) : s[j] # c
    ELSE 0

\* the final component of a path
PathName(path) == SubSeq(path, LastIndexOf(path, "/") + 1, Len(path))

\* Path(path).stem: the name without its last suffix; a dot that starts or
\* ends the name opens no suffix
PathStem(path) ==
    LET name == PathName(path)
        dot  == LastIndexOf(name, ".")
    IN  IF 1 < dot /\ dot < Len(name) THEN SubSeq(name, 1, dot - 1) ELSE name

\* self.output_path.get(), the directory chosen for the results
OutputDir == <<"/","o","u","t">>

\* os.path.join(directory, name), name not absolute
PathJoin(dir, name) ==
    IF dir # <<>> /\ dir[Len(dir)] = "/" THEN dir \o name ELSE dir \o <<"/">> \o name

OutputPath(name, format) == PathJoin(OutputDir, name \o <<".">> \o format)

\* what os.path.exists and os.path.getsize see at path
FileState(dir, path) ==
    IF \E e \in dir : e.path = path
    THEN (CHOOSE e \in dir : e.path = path).content
    ELSE "missing"

\* the directory after the encoder wrote content to path ("none": it wrote nothing)
Written(dir, path, content) ==
    IF content = "none" THEN dir
    ELSE {e \in dir : e.path # path} \cup {[path |-> path, content |-> content]}

LogEntry(level, text, file) == [level |-> level, text |-> text, file |-> file]

\* log_message keeps a debug message only in debug mode
Kept(level) == level # "debug" \/ debug_var

\* the log after log_message(text about file, level)
Logged(lg, level, text, file) ==
    IF Kept(level) THEN Append(lg, LogEntry(level, text, file)) ELSE lg

Call(fn, file) == [fn |-> fn, file |-> file]

\* the root.after calls after log_message(text about file, level)
LogShown(calls, level, file) ==
    IF Kept(level) THEN Append(calls, Call("update_log_display", file)) ELSE calls

\* the output check that ignores the size of the file
OutputUnusableIfMissing(state) == state = "missing"

\* not os.path.exists(output_path) or os.path.getsize(output_path) == 0
OutputUnusable(state) == state \in {"missing", "empty"}

\* what running the encoder on one file can come to: the process cannot be
\* started, or it exits with a code after leaving data, an empty file or
\* nothing at the output path
Outcomes ==
    {[exit |-> "not started", wrote |-> "none"]}
        \cup [exit : {"zero", "nonzero"}, wrote : {"data", "empty", "none"}]

ConvertInit ==
    /\ files \in Batches
    /\ idx = 0
    /\ debug_var \in BOOLEAN
    /\ output_format \in {<<"m","p","4">>, <<"a","v","i">>}
    /\ fs = {} /\ log = <<>> /\ shown = <<>> /\ after_calls = <<>> /\ results = <<>>
    /\ filename = <<>> /\ media_info = Unset /\ new_filename = None /\ new_name = None
    /\ pc = "start"

\* log_message("Starting conversion of N files")
StartBatch ==
    /\ pc = "start"
    /\ log' = Logged(log, "info", "Starting conversion", <<>>)
    /\ after_calls' = LogShown(after_calls, "info", <<>>)
    /\ pc' = "loop"
    /\ UNCHANGED <<rename_vars, files, idx, debug_var, output_format, fs, shown, results>>

\* the head of the loop body for the next file, up to its stem
NextFile ==
    /\ pc = "loop"
    /\ idx < Len(files)
    /\ idx' = idx + 1
    /\ log' = Logged(log, "debug", "Processing file", files[idx'])
    /\ after_calls' =
           Append(LogShown(after_calls, "debug", files[idx']), Call("status", files[idx']))
    /\ filename' = PathStem(files[idx'])
    /\ media_info' = Unset
    /\ new_filename' = None
    /\ pc' = "parse"
    /\ UNCHANGED <<new_name, files, debug_var, output_format, fs, shown, results>>

\* the rest of the loop body: the output path, the encoder, the two checks
EncodeFile ==
    /\ pc = "done"
    /\ idx \in DOMAIN files
    /\ \E outcome \in Outcomes :
        LET input_path  == files[idx]
            output_path == OutputPath(new_filename, output_format)
            log1   == Logged(Logged(log, "debug", "Output path", input_path),
                             "debug", "FFmpeg command", input_path)
            calls1 == LogShown(LogShown(after_calls, "debug", input_path),
                               "debug", input_path)
            fs1    == Written(fs, output_path, outcome.wrote)
            state  == FileState(fs1, output_path)
            ran    == outcome.exit = "zero"
            log2   == IF ran THEN Logged(log1, "info", "Successfully converted", input_path)
                      ELSE log1
            calls2 == IF ran THEN LogShown(calls1, "info", input_path) ELSE calls1
            raised == ~ran \/ OutputUnusable(state)
        IN  /\ fs' = fs1
            /\ results' = Append(results, [file |-> input_path,
                                           output_path |-> output_path,
                                           exit |-> outcome.exit,
                                           wrote |-> outcome.wrote,
                                           output |-> state])
            /\ IF raised
               THEN /\ log' = Logged(log2, "error", "Error processing", input_path)
                    /\ after_calls' = LogShown(calls2, "error", input_path)
                    /\ shown' = Append(shown, input_path)
               ELSE /\ log' = log2
                    /\ after_calls' = Append(calls2, Call("step", input_path))
                    /\ shown' = shown
    /\ pc' = "loop"
    /\ UNCHANGED <<rename_vars, files, idx, debug_var, output_format>>

\* after the last file: root.after(0, self.conversion_complete)
FinishBatch ==
    /\ pc = "loop"
    /\ idx = Len(files)
    /\ after_calls' = Append(after_calls, Call("conversion_complete", <<>>))
    /\ pc' = "finished"
    /\ UNCHANGED <<rename_vars, files, idx, debug_var, output_format, fs, log, shown, results>>

ConvertNext ==
    StartBatch \/ NextFile \/ ParseFilename \/ GenerateFilename \/ EncodeFile \/ FinishBatch

ConvertSpec == ConvertInit /\ [][ConvertNext]_vars


(***************************************************************************)
(* Properties of convert_files                                             *)
(***************************************************************************)
\* the encoder exited with a non-zero code, or the output file is missing or
\* empty after it ran
FileFailed(r) == r.exit = "nonzero" \/ r.output = "missing" \/ r.output = "empty"

ErrorLogged(file) ==
    \E k \in DOMAIN log : log[k].level = "error" /\ log[k].file = file

ErrorShown(file) == \E k \in DOMAIN shown : shown[k] = file

Stepped(file) ==
    \E k \in DOMAIN after_calls :
        after_calls[k].fn = "step" /\ after_calls[k].file = file

CompletionsScheduled ==
    Cardinality({k \in DOMAIN after_calls : after_calls[k].fn = "conversion_complete"})

\* C11: every file of the batch whose encoder exits with a non-zero code or
\* whose output file is missing or empty has an error logged and shown and
\* no step of the overall progress bar; the loop still goes through all the
\* files, and a batch that is through has scheduled conversion_complete,
\* once and last.
C11_FailedFilesHandled ==
    /\ \A k \in DOMAIN results :
          /\ results[k].file = files[k]
          /\ FileFailed(results[k]) =>
                /\ ErrorLogged(files[k])
                /\ ErrorShown(files[k])
                /\ ~Stepped(files[k])
    /\ pc # "finished" => CompletionsScheduled = 0
    /\ pc = "finished" =>
          /\ Len(results) = Len(files)
          /\ CompletionsScheduled = 1
          /\ after_calls[Len(after_calls)].fn = "conversion_complete"

C11_Witness ==
    /\ pc = "finished"
    /\ Len(files) = 2
    /\ results[1].exit = "nonzero"
    /\ ErrorLogged(files[1]) /\ ErrorShown(files[1]) /\ ~Stepped(files[1])
    /\ results[2].exit = "zero" /\ results[2].output = "data"
    /\ Stepped(files[2])

\* C12: within one batch two different input files never get the same output
\* path, so no converted file overwrites the output of another.
C12_DistinctOutputPaths ==
    \A j, k \in DOMAIN results :
        results[j].file # results[k].file =>
            results[j].output_path # results[k].output_path

====
